---- MODULE Spec2Model ----
(***************************************************************************)
(* The career-assistant workflow of src/app.py: the session's agent_state, *)
(* the three LangGraph nodes (retrieve_jobs, generate_analysis,            *)
(* tailor_resume), the compiled graph streamed by main_application, the    *)
(* job-selection interface and the tailoring button, login and logout,     *)
(* and the registration path: the Register form, the PayPal return handled *)
(* by handle_payment_callback, and the users and payments tables of        *)
(* src/database.py.                                                        *)
(*                                                                         *)
(* Python dicts are functions over string keys, so that dict.update and a  *)
(* key's absence are modelled as they behave.  The external services (the  *)
(* embedder, the Pinecone index, the Groq LLM) are nondeterministic: each  *)
(* call either fails (raises) or returns a value from a small set.         *)
(***************************************************************************)
EXTENDS Naturals, Sequences, FiniteSets, TLC

VARIABLES
    logged_in,    \* st.session_state.logged_in
    agent_state,  \* st.session_state.agent_state (a dict)
    g,            \* the channels of the running graph (LangGraph's own state)
    pc,           \* position of the current script run
    steps,        \* history variable: the nodes executed in this script run
    calls,        \* history variable: the external calls of this script run
    last,         \* history variable: what the last executed node returned
    button_shown, \* whether the last script run rendered the tailoring button
    routed,       \* history variable: branch decisions taken in this script run
    pre_selected, \* history variable: selected_job when this script run began
    unhandled,    \* the exception that ended the last script run, or "none"
    retrieved,    \* history variable: session jobs as of the last retrieval step
    users,        \* the committed rows of table users, in insertion order
    payments,     \* the committed rows of table payments, in insertion order
    now,          \* the clock (CURRENT_TIMESTAMP, datetime.now()), in days
    query_token,  \* st.query_params['token'], or NoToken
    registration_data,    \* st.session_state.registration_data, or None
    registration_success, \* st.session_state.registration_success is set
    username,     \* st.session_state.username, or NoUser
    form,         \* the form submitted in the current script run
    paypal_checked \* history variable: PayPal's answer in this run's callback

\* the database, the clock, the URL, the session's authentication keys
authvars ==
    <<users, payments, now, query_token, registration_data,
      registration_success, username, form, paypal_checked>>

\* the workflow's part of the session, with its history variables
wfvars ==
    <<agent_state, g, button_shown, steps, calls, last, routed, pre_selected,
      unhandled, retrieved>>

vars ==
    <<logged_in, agent_state, g, pc, button_shown, steps, calls, last, routed,
      pre_selected, unhandled, retrieved, users, payments, now, query_token,
      registration_data, registration_success, username, form, paypal_checked>>

---------------------------------------------------------------------------
(* Bounds *)

\* most matches one index query returns in the model (the code asks for TopK)
MaxMatches == 2

\* top_k of the index query
TopK == 5

\* the clock stops after this many years
MaxYears == 1

\* create_user rejects shorter passwords
MinPasswordLen == 8

\* days of subscription a verified payment buys
Year == 365

---------------------------------------------------------------------------
(* Values *)

\* Python None, as a value that can be compared with a job mapping
None == ("__none__" :> "")

\* job metadata records as the index stores them: string-keyed mappings in
\* which any key may be missing; J1 and J2 share their title
J1 == ("Job Title" :> "T1" @@ "Job Description" :> "D1")
J2 == ("Job Title" :> "T1")
J3 == ("Job Description" :> "D3")
JobPool == {J1, J2, J3}

\* a match whose metadata is empty ({}): falsy in Python
EmptyMeta == [k \in {} |-> ""]

\* the texts a user can submit (chat_input never returns "" as a submission)
ResumeTexts == {"r1", "r2"}

\* the texts the LLM can answer with
Responses == {"a1", "a2"}

\* the LLM call raised
LLMFail == "llm_fail"
LLMOutcomes == Responses \cup {LLMFail}

BoundedSeq(S, n) == UNION {[1..k -> S] : k \in 0..n}

Min(a, b) == IF a <= b THEN a ELSE b

\* what encode + index.query can do: the embedder raises, the query raises,
\* or the query returns at most top_k matches
RetrievalOutcomes ==
    {[embed_ok |-> FALSE, query_ok |-> FALSE, matches |-> <<>>],
     [embed_ok |-> TRUE, query_ok |-> FALSE, matches |-> <<>>]}
    \cup {[embed_ok |-> TRUE, query_ok |-> TRUE, matches |-> m] :
            m \in BoundedSeq(JobPool \cup {EmptyMeta}, Min(MaxMatches, TopK))}

\* the keys of AgentState: the graph's channels
Channels == {"resume_text", "jobs", "history", "current_response", "selected_job"}

\* one entry of the log of external calls
Call(svc, ok, n) == [svc |-> svc, ok |-> ok, n |-> n]

---------------------------------------------------------------------------
(* Python helpers *)

\* truthiness of a dict-or-None value
TruthyDict(v) == v # None /\ DOMAIN v # {}

\* d.get(k, default)
Get(d, k, default) == IF k \in DOMAIN d THEN d[k] ELSE default

\* dict.update: every key of u replaces (or adds) the key in d
DictUpdate(d, u) ==
    [k \in DOMAIN d \cup DOMAIN u |-> IF k \in DOMAIN u THEN u[k] ELSE d[k]]

\* the default agent_state main() puts in a new session
DefaultAgentState ==
    ("resume_text" :> "" @@ "jobs" :> <<>> @@ "history" :> <<>>
     @@ "current_response" :> "" @@ "selected_job" :> None)

---------------------------------------------------------------------------
(* The graph nodes.  Each returns out, the partial update the Python       *)
(* function returns, and calls, the external calls it made.                *)

NoJobsMsg == "No jobs found for analysis"
NoJobSelectedMsg == "No job selected for tailoring"

retrieve_jobs(state, ext) ==
    IF ~ext.embed_ok
    THEN [out |-> ("error" :> "embedding failed"
                   @@ "history" :> <<"Job retrieval failed">>),
          calls |-> <<Call("embed", FALSE, 0)>>]
    ELSE IF ~ext.query_ok
    THEN [out |-> ("error" :> "query failed"
                   @@ "history" :> <<"Job retrieval failed">>),
          calls |-> <<Call("embed", TRUE, 0), Call("query", FALSE, 0)>>]
    ELSE [out |-> ("jobs" :> SelectSeq(ext.matches, LAMBDA m : DOMAIN m # {})
                   @@ "history" :> <<"Retrieved jobs from Pinecone">>),
          calls |-> <<Call("embed", TRUE, 0),
                      Call("query", TRUE, Len(ext.matches))>>]

\* generate_analysis returning a jobs key as well
generate_analysis_writes_jobs(state, llm) ==
    IF Get(state, "jobs", <<>>) = <<>>
    THEN [out |-> ("current_response" :> NoJobsMsg
                   @@ "history" :> <<"Skipped analysis">>),
          calls |-> <<>>]
    ELSE IF llm = LLMFail
    THEN [out |-> ("error" :> "llm failed" @@ "jobs" :> <<>>
                   @@ "history" :> <<"Analysis generation failed">>),
          calls |-> <<Call("llm", FALSE, 0)>>]
    ELSE [out |-> ("current_response" :> llm @@ "jobs" :> Tail(state["jobs"])
                   @@ "history" :> <<"Generated career analysis">>),
          calls |-> <<Call("llm", TRUE, 0)>>]

\* generate_analysis without the guard on an empty jobs list
generate_analysis_no_guard(state, llm) ==
    IF llm = LLMFail
    THEN [out |-> ("error" :> "llm failed"
                   @@ "history" :> <<"Analysis generation failed">>),
          calls |-> <<Call("llm", FALSE, 0)>>]
    ELSE [out |-> ("current_response" :> llm
                   @@ "history" :> <<"Generated career analysis">>),
          calls |-> <<Call("llm", TRUE, 0)>>]

generate_analysis(state, llm) ==
    IF Get(state, "jobs", <<>>) = <<>>
    THEN [out |-> ("current_response" :> NoJobsMsg
                   @@ "history" :> <<"Skipped analysis">>),
          calls |-> <<>>]
    ELSE IF llm = LLMFail
    THEN [out |-> ("error" :> "llm failed"
                   @@ "history" :> <<"Analysis generation failed">>),
          calls |-> <<Call("llm", FALSE, 0)>>]
    ELSE [out |-> ("current_response" :> llm
                   @@ "history" :> <<"Generated career analysis">>),
          calls |-> <<Call("llm", TRUE, 0)>>]

\* tailor_resume without the guard on a missing selected_job: the subscript
\* of None raises inside the try
tailor_resume_no_guard(state, llm) ==
    IF ~TruthyDict(Get(state, "selected_job", None))
       \/ "Job Title" \notin DOMAIN state["selected_job"]
    THEN [out |-> ("error" :> "KeyError: Job Title"
                   @@ "history" :> <<"Tailoring failed">>),
          calls |-> <<>>]
    ELSE IF llm = LLMFail
    THEN [out |-> ("error" :> "llm failed"
                   @@ "history" :> <<"Tailoring failed">>),
          calls |-> <<Call("llm", FALSE, 0)>>]
    ELSE [out |-> ("current_response" :> llm
                   @@ "history" :> <<"Generated tailored resume suggestions">>),
          calls |-> <<Call("llm", TRUE, 0)>>]

\* tailor_resume letting the LLM's exception escape the try: no error value
tailor_resume_uncaught(state, llm) ==
    IF ~TruthyDict(Get(state, "selected_job", None))
    THEN [out |-> ("current_response" :> NoJobSelectedMsg
                   @@ "history" :> <<"Skipped tailoring">>),
          calls |-> <<>>]
    ELSE IF "Job Title" \notin DOMAIN state["selected_job"]
    THEN [out |-> ("error" :> "KeyError: Job Title"
                   @@ "history" :> <<"Tailoring failed">>),
          calls |-> <<>>]
    ELSE IF llm = LLMFail
    THEN [out |-> EmptyMeta, calls |-> <<Call("llm", FALSE, 0)>>]
    ELSE [out |-> ("current_response" :> llm
                   @@ "history" :> <<"Generated tailored resume suggestions">>),
          calls |-> <<Call("llm", TRUE, 0)>>]

tailor_resume(state, llm) ==
    IF ~TruthyDict(Get(state, "selected_job", None))
    THEN [out |-> ("current_response" :> NoJobSelectedMsg
                   @@ "history" :> <<"Skipped tailoring">>),
          calls |-> <<>>]
    ELSE IF "Job Title" \notin DOMAIN state["selected_job"]
    THEN [out |-> ("error" :> "KeyError: Job Title"
                   @@ "history" :> <<"Tailoring failed">>),
          calls |-> <<>>]
    ELSE IF llm = LLMFail
    THEN [out |-> ("error" :> "llm failed"
                   @@ "history" :> <<"Tailoring failed">>),
          calls |-> <<Call("llm", FALSE, 0)>>]
    ELSE [out |-> ("current_response" :> llm
                   @@ "history" :> <<"Generated tailored resume suggestions">>),
          calls |-> <<Call("llm", TRUE, 0)>>]

---------------------------------------------------------------------------
(* The compiled graph: app = workflow.compile(), streamed by app.stream.   *)

Nodes == {"retrieve_jobs", "generate_analysis", "tailor_resume"}

\* the channels a graph run starts from: each AgentState key of the input;
\* history is an operator.add channel, so the input is added to the empty list
GraphInput(input) ==
    [k \in Channels |-> IF k = "history" THEN <<>> \o input[k] ELSE input[k]]

\* the keys of a node's return value that are channels of AgentState; a key
\* that is not declared in AgentState (error) is no channel and is not written
ChannelWrites(out) == [k \in DOMAIN out \cap Channels |-> out[k]]

\* a channel's update: history is Annotated with operator.add (concatenation),
\* every other channel keeps the last value written
Reduce(state, writes) ==
    [k \in Channels |->
        IF k \notin DOMAIN writes THEN state[k]
        ELSE IF k = "history" THEN state[k] \o writes[k]
        ELSE writes[k]]

\* a conditional edge that always ends the run
Route_always_end(state) == "END"

\* the conditional edge after generate_analysis
Route(state) ==
    IF TruthyDict(Get(state, "selected_job", None)) THEN "tailor_resume" ELSE "END"

\* the edges of the workflow
NextNode(node, state) ==
    CASE node = "retrieve_jobs" -> "generate_analysis"
      [] node = "generate_analysis" -> Route(state)
      [] node = "tailor_resume" -> "END"

RunNode(node, state, ext) ==
    CASE node = "retrieve_jobs" -> retrieve_jobs(state, ext)
      [] node = "generate_analysis" -> generate_analysis(state, ext)
      [] node = "tailor_resume" -> tailor_resume(state, ext)

Outcomes(node) == IF node = "retrieve_jobs" THEN RetrievalOutcomes ELSE LLMOutcomes

\* a merge that only adds the keys the session does not hold yet
SessionMerge_setdefault(d, value) == DictUpdate(value, d)

\* the merge of a partial update into the session's agent_state:
\* st.session_state.agent_state.update(value)
SessionMerge(d, value) == DictUpdate(d, value)

NoReturn == [out |-> EmptyMeta, calls |-> <<>>]

---------------------------------------------------------------------------
(* src/database.py: the tables are sequences of rows, a row's id is its    *)
(* position.  Each function takes the committed tables and returns what it *)
(* commits; db_ok = FALSE is a connection or statement failure.  A         *)
(* connection closed without commit rolls back (autocommit is off).  The   *)
(* columns email, created_at, last_login and amount are not modelled.      *)

Usernames == {"u1", "u2"}

\* PayPal order ids
Orders == {"o1", "o2"}

\* passwords are sequences of characters, so that len() is modelled
GoodPassword == <<"c", "o", "r", "r", "e", "c", "t", "1">>
OtherPassword == <<"w", "r", "o", "n", "g", "p", "w", "2">>
ShortPassword == <<"s", "h", "o", "r", "t">>
Passwords == {GoodPassword, OtherPassword, ShortPassword}

NoToken == "none"
NoUser == "none"
NoForm == [kind |-> "none"]

\* SQL NULL and a value of column subscription_end
Null == <<>>
At(day) == <<day>>

\* bcrypt.hashpw(password, salt)
Hash(password) == [alg |-> "bcrypt", of |-> password]

\* bcrypt.checkpw
verify_password(stored_hash, password) == stored_hash = Hash(password)

UserRow(name, password, payment_id) ==
    [username |-> name, password_hash |-> Hash(password),
     payment_status |-> "pending", payment_id |-> payment_id,
     subscription_end |-> Null]

PaymentRow(user_id, payment_id) ==
    [user_id |-> user_id, payment_id |-> payment_id, status |-> "completed"]

\* the rows of a table that carry the order id
RowsOf(table, payment_id) ==
    {i \in 1..Len(table) : table[i].payment_id = payment_id}

RowsNamed(table, name) ==
    {i \in 1..Len(table) : table[i].username = name}

\* create_user without the UNIQUE constraints of table users
create_user_no_unique(table, name, password, payment_id, db_ok) ==
    IF Len(password) < MinPasswordLen
    THEN [raised |-> "ValueError", users |-> table]
    ELSE IF ~db_ok
    THEN [raised |-> "RuntimeError", users |-> table]
    ELSE [raised |-> "none",
          users |-> Append(table, UserRow(name, password, payment_id))]

\* create_user: the length check, then the INSERT, which the UNIQUE
\* constraints on username and payment_id reject (IntegrityError -> ValueError)
create_user(table, name, password, payment_id, db_ok) ==
    IF Len(password) < MinPasswordLen
    THEN [raised |-> "ValueError", users |-> table]
    ELSE IF ~db_ok
    THEN [raised |-> "RuntimeError", users |-> table]
    ELSE IF RowsNamed(table, name) # {} \/ RowsOf(table, payment_id) # {}
    THEN [raised |-> "ValueError", users |-> table]
    ELSE [raised |-> "none",
          users |-> Append(table, UserRow(name, password, payment_id))]

\* get_user_by_username: the row, or None (also when the query fails)
get_user_by_username(table, name, db_ok) ==
    IF db_ok /\ RowsNamed(table, name) # {}
    THEN table[CHOOSE i \in RowsNamed(table, name) : TRUE]
    ELSE None

\* verify_payment: UPDATE ... RETURNING id, then the INSERT into payments and
\* the commit; payments.payment_id is UNIQUE, a rejected INSERT raises and the
\* UPDATE is rolled back
verify_payment(table, paid, payment_id, today, db_ok) ==
    IF ~db_ok
    THEN [raised |-> "Exception", result |-> FALSE, users |-> table, payments |-> paid]
    ELSE IF RowsOf(table, payment_id) = {}
    THEN [raised |-> "none", result |-> FALSE, users |-> table, payments |-> paid]
    ELSE IF RowsOf(paid, payment_id) # {}
    THEN [raised |-> "IntegrityError", result |-> FALSE, users |-> table,
          payments |-> paid]
    ELSE [raised |-> "none", result |-> TRUE,
          users |-> [i \in 1..Len(table) |->
                        IF table[i].payment_id = payment_id
                        THEN [table[i] EXCEPT !.payment_status = "active",
                                              !.subscription_end = At(today + Year)]
                        ELSE table[i]],
          payments |-> Append(paid,
                          PaymentRow(CHOOSE i \in RowsOf(table, payment_id) : TRUE,
                                     payment_id))]

\* is_subscription_active without the comparison of subscription_end
is_subscription_active_status_only(table, name, today, db_ok) ==
    /\ db_ok
    /\ \E i \in RowsNamed(table, name) : table[i].payment_status = "active"

\* is_subscription_active: a row with payment_status 'active' and
\* subscription_end > CURRENT_TIMESTAMP (NULL compares as not true); False
\* when the query fails
is_subscription_active(table, name, today, db_ok) ==
    /\ db_ok
    /\ \E i \in RowsNamed(table, name) :
          /\ table[i].payment_status = "active"
          /\ table[i].subscription_end # Null
          /\ table[i].subscription_end[1] > today

---------------------------------------------------------------------------
(* authentication_ui *)

\* where the database can fail during one handle_payment_callback
CallbackFailures == {"none", "create_user", "verify_payment"}

\* where the database can fail during one login
LoginFailures == {"none", "get_user", "is_active", "update_last_login"}

\* handle_payment_callback: what it commits and whether it reached
\* registration_success; create_user commits on its own, before
\* verify_payment runs
handle_payment_callback(table, paid, token, reg, paypal_ok, dbfail, today) ==
    LET same == [users |-> table, payments |-> paid, success |-> FALSE]
    IN  IF token = NoToken \/ ~paypal_ok \/ reg = None
        THEN same
        ELSE LET c == create_user(table, reg.username, reg.password, token,
                                  dbfail # "create_user")
                 v == verify_payment(c.users, paid, token, today,
                                     dbfail # "verify_payment")
             IN  IF c.raised # "none"
                 THEN same
                 ELSE IF v.raised # "none"
                 THEN [users |-> c.users, payments |-> paid, success |-> FALSE]
                 ELSE [users |-> v.users, payments |-> v.payments,
                       success |-> v.result]

\* the body of the Login form's submit: user found, password verified,
\* subscription active, last login recorded
LoginAccepted(table, today, name, password, dbfail) ==
    LET user == get_user_by_username(table, name, dbfail # "get_user")
    IN  /\ user # None
        /\ verify_password(user.password_hash, password)
        /\ is_subscription_active(table, name, today, dbfail # "is_active")
        /\ dbfail # "update_last_login"

\* a database the application has reached: u1 registered and paid order o1
\* on day 0; u2's user row was committed but the verification of its order o2
\* failed, so it is still pending
SeedUsers ==
    << [UserRow("u1", GoodPassword, "o1") EXCEPT !.payment_status = "active",
                                               !.subscription_end = At(Year)],
       UserRow("u2", GoodPassword, "o2") >>

SeedPayments == <<PaymentRow(1, "o1")>>

---------------------------------------------------------------------------
(* Actions *)

Init ==
    /\ logged_in = FALSE
    /\ agent_state = DefaultAgentState
    /\ g = GraphInput(DefaultAgentState)
    /\ pc = "auth"
    /\ button_shown = FALSE
    /\ steps = <<>>
    /\ calls = <<>>
    /\ last = NoReturn
    /\ routed = 0
    /\ pre_selected = None
    /\ unhandled = "none"
    /\ retrieved = <<>>
    /\ users = SeedUsers
    /\ payments = SeedPayments
    /\ now = 0
    /\ query_token = NoToken
    /\ registration_data = None
    /\ registration_success = FALSE
    /\ username = NoUser
    /\ form = NoForm
    /\ paypal_checked = "none"

\* the Login form is submitted
LoginSubmit ==
    /\ pc = "auth"
    /\ \E name \in Usernames, password \in Passwords :
        form' = [kind |-> "login", username |-> name, password |-> password]
    /\ pc' = "callback"
    /\ paypal_checked' = "none"
    /\ UNCHANGED <<logged_in, users, payments, now, query_token,
                   registration_data, registration_success, username>>
    /\ UNCHANGED wfvars

\* the Register form is submitted
RegisterSubmit ==
    /\ pc = "auth"
    /\ \E name \in Usernames, password \in Passwords :
        form' = [kind |-> "register", username |-> name, password |-> password]
    /\ pc' = "callback"
    /\ paypal_checked' = "none"
    /\ UNCHANGED <<logged_in, users, payments, now, query_token,
                   registration_data, registration_success, username>>
    /\ UNCHANGED wfvars

\* the browser loads the application with ?token=<order id>, as PayPal's return
\* does; the page either belongs to the session that registered or starts a
\* session of its own
PayPalReturn ==
    /\ pc = "auth"
    /\ \E order \in Orders : query_token' = order
    /\ \E fresh \in BOOLEAN :
        IF fresh
        THEN /\ registration_data' = None
             /\ registration_success' = FALSE
        ELSE UNCHANGED <<registration_data, registration_success>>
    /\ form' = NoForm
    /\ pc' = "callback"
    /\ paypal_checked' = "none"
    /\ UNCHANGED <<logged_in, users, payments, now, username>>
    /\ UNCHANGED wfvars

\* a year passes while nobody uses the application
Tick ==
    /\ pc = "auth"
    /\ now < MaxYears * Year
    /\ now' = now + Year
    /\ UNCHANGED <<logged_in, pc, users, payments, query_token,
                   registration_data, registration_success, username, form,
                   paypal_checked>>
    /\ UNCHANGED wfvars

\* authentication_ui begins with handle_payment_callback; on success it sets
\* registration_success and st.rerun() starts the script again, the form's
\* submission is gone and the token is still in the URL
ProcessCallback ==
    /\ pc = "callback"
    /\ \E paypal_ok \in BOOLEAN, dbfail \in CallbackFailures :
        LET r == handle_payment_callback(users, payments, query_token,
                                         registration_data, paypal_ok, dbfail, now)
        IN  /\ users' = r.users
            /\ payments' = r.payments
            /\ paypal_checked' = IF query_token = NoToken THEN "none"
                                 ELSE IF paypal_ok THEN "true" ELSE "false"
            /\ IF r.success
               THEN /\ registration_success' = TRUE
                    /\ form' = NoForm
                    /\ pc' = "callback"
               ELSE /\ UNCHANGED <<registration_success, form>>
                    /\ pc' = "forms"
    /\ UNCHANGED <<logged_in, now, query_token, registration_data, username>>
    /\ UNCHANGED wfvars

\* the two forms of authentication_ui: a submitted Login form logs the
\* session in and reruns into main_application; a submitted Register form
\* creates a PayPal order and keeps the registration data in the session
AuthForms ==
    /\ pc = "forms"
    /\ CASE form.kind = "login" ->
              \E dbfail \in LoginFailures :
                  IF LoginAccepted(users, now, form.username, form.password, dbfail)
                  THEN /\ logged_in' = TRUE
                       /\ username' = form.username
                       /\ pc' = "idle"
                       /\ UNCHANGED registration_data
                  ELSE /\ pc' = "auth"
                       /\ UNCHANGED <<logged_in, username, registration_data>>
         [] form.kind = "register" ->
              \E order_created \in BOOLEAN :
                  /\ registration_data' =
                        IF order_created
                        THEN [username |-> form.username, password |-> form.password]
                        ELSE registration_data
                  /\ pc' = "auth"
                  /\ UNCHANGED <<logged_in, username>>
         [] OTHER ->
              /\ pc' = "auth"
              /\ UNCHANGED <<logged_in, username, registration_data>>
    /\ form' = NoForm
    /\ paypal_checked' = "none"
    /\ UNCHANGED <<users, payments, now, query_token, registration_success>>
    /\ UNCHANGED wfvars

\* the Logout button: session_state.clear(), then the rerun's main() builds
\* the defaults again and shows authentication_ui
Logout ==
    /\ pc = "idle"
    /\ logged_in
    /\ logged_in' = FALSE
    /\ agent_state' = DefaultAgentState
    /\ g' = GraphInput(DefaultAgentState)
    /\ pc' = "callback"
    /\ button_shown' = FALSE
    /\ steps' = <<>>
    /\ calls' = <<>>
    /\ last' = NoReturn
    /\ routed' = 0
    /\ pre_selected' = None
    /\ unhandled' = "none"
    /\ retrieved' = <<>>
    /\ registration_data' = None
    /\ registration_success' = FALSE
    /\ username' = NoUser
    /\ form' = NoForm
    /\ paypal_checked' = "none"
    /\ UNCHANGED <<users, payments, now, query_token>>

\* SubmitResume without the reset of selected_job
SubmitResume_keeps_selection ==
    /\ pc = "idle"
    /\ logged_in
    /\ \E text \in ResumeTexts :
        agent_state' = DictUpdate(agent_state, "resume_text" :> text)
    /\ g' = GraphInput(agent_state')
    /\ pc' = "retrieve_jobs"
    /\ steps' = <<>>
    /\ calls' = <<>>
    /\ last' = NoReturn
    /\ routed' = 0
    /\ pre_selected' = agent_state["selected_job"]
    /\ unhandled' = "none"
    /\ UNCHANGED <<logged_in, button_shown, retrieved>>
    /\ UNCHANGED authvars

\* a resume is submitted in the chat input: the selection is reset and the
\* graph is started on the session's agent_state
SubmitResume ==
    /\ pc = "idle"
    /\ logged_in
    /\ \E text \in ResumeTexts :
        agent_state' = DictUpdate(agent_state,
                            "resume_text" :> text @@ "selected_job" :> None)
    /\ g' = GraphInput(agent_state')
    /\ pc' = "retrieve_jobs"
    /\ steps' = <<>>
    /\ calls' = <<>>
    /\ last' = NoReturn
    /\ routed' = 0
    /\ pre_selected' = agent_state["selected_job"]
    /\ unhandled' = "none"
    /\ UNCHANGED <<logged_in, button_shown, retrieved>>
    /\ UNCHANGED authvars

\* one superstep of app.stream: the current node runs on the graph's state,
\* its writes are reduced into the channels, the next node is chosen, and the
\* streamed event {node: update} is merged into the session's agent_state by
\* the loop "for key, value in event.items(): agent_state.update(value)".  The
\* graph reduces history with operator.add; the session's copy is merged by
\* dict.update and does not go through the reducer
GraphStep ==
    /\ pc \in Nodes
    /\ \E ext \in Outcomes(pc) :
        LET r == RunNode(pc, g, ext)
            g2 == Reduce(g, ChannelWrites(r.out))
        IN  /\ g' = g2
            /\ agent_state' = SessionMerge(agent_state, ChannelWrites(r.out))
            /\ pc' = NextNode(pc, g2)
            /\ calls' = calls \o r.calls
            /\ last' = r
    /\ steps' = Append(steps, pc)
    /\ routed' = IF pc = "generate_analysis" THEN routed + 1 ELSE routed
    /\ retrieved' = IF pc = "retrieve_jobs" THEN agent_state'["jobs"] ELSE retrieved
    /\ UNCHANGED <<logged_in, button_shown, pre_selected, unhandled>>
    /\ UNCHANGED authvars

\* a script rerun without a submitted resume: the selection was changed
\* (clicked = FALSE) or the tailoring button was clicked
Rerun ==
    /\ pc = "idle"
    /\ logged_in
    /\ \E clicked \in BOOLEAN :
        /\ clicked => button_shown
        /\ pc' = IF clicked THEN "clicked" ELSE "rerun"
    /\ steps' = <<>>
    /\ calls' = <<>>
    /\ last' = NoReturn
    /\ routed' = 0
    /\ pre_selected' = agent_state["selected_job"]
    /\ unhandled' = "none"
    /\ UNCHANGED <<logged_in, agent_state, g, button_shown, retrieved>>
    /\ UNCHANGED authvars

\* job_titles of the selectbox
JobTitles(jobs) ==
    {Get(jobs[i], "Job Title", "Unknown Position") : i \in 1..Len(jobs)}

\* the indices next(...) can stop at
Matching(jobs, title) ==
    {i \in 1..Len(jobs) : "Job Title" \in DOMAIN jobs[i] /\ jobs[i]["Job Title"] = title}

\* next(job for job in jobs if job.get("Job Title") == selected_title)
FirstMatch(jobs, title) ==
    jobs[CHOOSE i \in Matching(jobs, title) : \A j \in Matching(jobs, title) : i <= j]

\* the tailoring interface up to the button: with jobs in the state, the
\* selectbox's title picks selected_job; next() raises StopIteration when no job
\* carries the title, which ends the script run
SelectJob ==
    /\ pc \in {"END", "rerun", "clicked"}
    /\ IF agent_state["jobs"] = <<>>
       THEN /\ pc' = "idle"
            /\ button_shown' = FALSE
            /\ unhandled' = "none"
            /\ UNCHANGED agent_state
       ELSE \E title \in (IF pc = "clicked"
                          THEN {agent_state["selected_job"]["Job Title"]}
                          ELSE JobTitles(agent_state["jobs"])) :
            IF Matching(agent_state["jobs"], title) = {}
            THEN /\ pc' = "idle"
                 /\ button_shown' = FALSE
                 /\ unhandled' = "StopIteration"
                 /\ UNCHANGED agent_state
            ELSE /\ agent_state' =
                      [agent_state EXCEPT !["selected_job"] =
                          FirstMatch(agent_state["jobs"], title)]
                 /\ button_shown' = TRUE
                 /\ unhandled' = "none"
                 /\ pc' = IF pc = "clicked" THEN "button" ELSE "idle"
    /\ UNCHANGED <<logged_in, g, steps, calls, last, routed, pre_selected,
                   retrieved>>
    /\ UNCHANGED authvars

\* the button's body: tailor_resume is called on the session's agent_state
\* and its result merged into it
TailorButton ==
    /\ pc = "button"
    /\ \E llm \in LLMOutcomes :
        LET r == tailor_resume(agent_state, llm)
        IN  /\ agent_state' = SessionMerge(agent_state, r.out)
            /\ calls' = calls \o r.calls
            /\ last' = r
    /\ steps' = Append(steps, "tailor_resume")
    /\ pc' = "idle"
    /\ UNCHANGED <<logged_in, g, button_shown, routed, pre_selected, unhandled,
                   retrieved>>
    /\ UNCHANGED authvars

Next ==
    \/ LoginSubmit
    \/ Tick
    \/ ProcessCallback
    \/ AuthForms
    \/ Logout
    \/ SubmitResume
    \/ GraphStep
    \/ Rerun
    \/ SelectJob
    \/ TailorButton

Spec == Init /\ [][Next]_vars

---------------------------------------------------------------------------
(* Registration and login from an empty database; the workflow is not run  *)

InitAuth ==
    /\ logged_in = FALSE
    /\ agent_state = DefaultAgentState
    /\ g = GraphInput(DefaultAgentState)
    /\ pc = "auth"
    /\ button_shown = FALSE
    /\ steps = <<>>
    /\ calls = <<>>
    /\ last = NoReturn
    /\ routed = 0
    /\ pre_selected = None
    /\ unhandled = "none"
    /\ retrieved = <<>>
    /\ users = <<>>
    /\ payments = <<>>
    /\ now = 0
    /\ query_token = NoToken
    /\ registration_data = None
    /\ registration_success = FALSE
    /\ username = NoUser
    /\ form = NoForm
    /\ paypal_checked = "none"

NextAuth ==
    \/ LoginSubmit
    \/ RegisterSubmit
    \/ PayPalReturn
    \/ Tick
    \/ ProcessCallback
    \/ AuthForms
    \/ Logout

SpecAuth == InitAuth /\ [][NextAuth]_vars

---------------------------------------------------------------------------
(* The workflow's functions on arbitrary states: the compiled graph        *)
(* streamed from any input state (merged as main_application merges it),   *)
(* and tailor_resume called directly on any state.                         *)

AnyHistory ==
    {<<>>, <<"Skipped analysis">>,
     <<"Retrieved jobs from Pinecone", "Generated career analysis">>}

AnyAgentState ==
    {("resume_text" :> r @@ "jobs" :> j @@ "history" :> h
      @@ "current_response" :> c @@ "selected_job" :> s) :
        r \in {"", "r1"}, j \in BoundedSeq(JobPool, MaxMatches),
        h \in AnyHistory, c \in {"", "a1"},
        s \in JobPool \cup {None, EmptyMeta}}

InitFn ==
    /\ logged_in = TRUE
    /\ agent_state \in AnyAgentState
    /\ g = GraphInput(agent_state)
    /\ pc \in {"retrieve_jobs", "button"}
    /\ button_shown = FALSE
    /\ steps = <<>>
    /\ calls = <<>>
    /\ last = NoReturn
    /\ routed = 0
    /\ pre_selected = agent_state["selected_job"]
    /\ unhandled = "none"
    /\ retrieved = agent_state["jobs"]
    /\ users = SeedUsers
    /\ payments = SeedPayments
    /\ now = 0
    /\ query_token = NoToken
    /\ registration_data = None
    /\ registration_success = FALSE
    /\ username = "u1"
    /\ form = NoForm
    /\ paypal_checked = "none"

NextFn ==
    \/ GraphStep
    \/ TailorButton

SpecFn == InitFn /\ [][NextFn]_vars

\* each step runs to completion and the driver goes on to the next one
FairSpecFn == SpecFn /\ WF_vars(GraphStep) /\ WF_vars(TailorButton)

---------------------------------------------------------------------------
(* Properties *)

IsPrefix(s, t) == Len(s) <= Len(t) /\ SubSeq(t, 1, Len(s)) = s

Last(s) == s[Len(s)]

FullRun == <<"retrieve_jobs", "generate_analysis", "tailor_resume">>

\* the graph of a full run has ended (the script is about to show the results)
RunEnded == pc = "END"

\* this transition executes a step (a node of the graph, or the button's call)
StepTaken == Len(steps') = Len(steps) + 1

\* C1, as the spec states it: with selected_job set before the resume is
\* submitted, the full run executes retrieval, analysis and tailoring in order,
\* history then holds three entries and current_response is the tailoring
\* step's output.
C1_ThreeStepsWhenPreselected ==
    (RunEnded /\ TruthyDict(pre_selected)) =>
        /\ steps = FullRun
        /\ Len(agent_state["history"]) = 3
        /\ "current_response" \in DOMAIN last.out
            => agent_state["current_response"] = last.out["current_response"]

\* C1, amended: with selected_job set before the resume is submitted, the
\* submission clears it before the graph starts, so the full run executes
\* retrieval and analysis only, in that order, takes the branch decision once
\* and ends without tailoring; afterwards selected_job is absent, the last
\* entry of history is the analysis step's, and current_response is the
\* analysis step's output whenever that step returned one.
C1_PreselectionClearedTwoSteps ==
    (RunEnded /\ TruthyDict(pre_selected)) =>
        /\ steps = <<"retrieve_jobs", "generate_analysis">>
        /\ routed = 1
        /\ agent_state["selected_job"] = None
        /\ agent_state["history"] # <<>>
        /\ Last(agent_state["history"]) = Last(last.out["history"])
        /\ Last(agent_state["history"]) \in
              {"Skipped analysis", "Generated career analysis",
               "Analysis generation failed"}
        /\ "current_response" \in DOMAIN last.out
            => agent_state["current_response"] = last.out["current_response"]

\* C1 witness: a full run that began with a selected job has ended after a
\* successful analysis.
C1_Witness ==
    /\ RunEnded
    /\ TruthyDict(pre_selected)
    /\ last.calls = <<Call("llm", TRUE, 0)>>
    /\ agent_state["current_response"] \in Responses

\* C2: after a full run the length of the session's history is the number of
\* steps that run executed: 2 when no job is selected, 3 when one is.
C2_HistoryLengthIsStepCount ==
    RunEnded =>
        /\ Len(agent_state["history"]) = Len(steps)
        /\ Len(steps) = IF TruthyDict(agent_state["selected_job"]) THEN 3 ELSE 2

\* C3: history is append-only: in every transition other than a logout the
\* session's history before is a prefix of the history after, in particular
\* in every merge of a step's partial update.
C3_HistoryAppendOnly ==
    [][(logged_in' \/ ~logged_in) =>
          IsPrefix(agent_state["history"], agent_state'["history"])]_vars

\* C4: a tailoring-only invocation with a selected job leaves jobs unchanged
\* and extends history by exactly one entry, keeping all earlier entries.
C4_TailoringOnlyAppendsOne ==
    [][(pc = "button" /\ TruthyDict(agent_state["selected_job"])) =>
          /\ agent_state'["jobs"] = agent_state["jobs"]
          /\ Len(agent_state'["history"]) = Len(agent_state["history"]) + 1
          /\ IsPrefix(agent_state["history"], agent_state'["history"])]_vars

\* C5: jobs is written only by the retrieval step: whenever the analysis step
\* or the tailoring step was the last step to execute (having succeeded,
\* short-circuited or failed), jobs, in the session and in the graph, is what
\* it was when the last retrieval step had been merged.
C5_JobsOnlyWrittenByRetrieval ==
    (steps # <<>> /\ Last(steps) \in {"generate_analysis", "tailor_resume"}) =>
        /\ agent_state["jobs"] = retrieved
        /\ g["jobs"] = retrieved

\* C5 witness: the tailoring step has failed on a state whose jobs the
\* retrieval step had filled.
C5_Witness ==
    /\ steps # <<>>
    /\ Last(steps) = "tailor_resume"
    /\ "error" \in DOMAIN last.out
    /\ retrieved # <<>>
    /\ agent_state["jobs"] = retrieved

\* the external dependency called last by the last executed step failed
DependencyFailed == last.calls # <<>> /\ ~Last(last.calls).ok

\* the index query of this run returned an empty sequence of matches
QueryReturnedEmpty == \E i \in 1..Len(calls) : calls[i] = Call("query", TRUE, 0)

\* C6: when the index query of a run returned no matches, the analysis step
\* of that run short-circuits: once it has executed, it has made no call at
\* all, the run has called no LLM, and current_response is the fixed "no jobs
\* found" message.
C6_EmptyQueryShortCircuitsAnalysis ==
    (Len(steps) = 2 /\ steps[2] = "generate_analysis" /\ QueryReturnedEmpty) =>
        /\ last.calls = <<>>
        /\ \A i \in 1..Len(calls) : calls[i].svc # "llm"
        /\ last.out["current_response"] = NoJobsMsg
        /\ agent_state["current_response"] = NoJobsMsg

\* C6 witness: the analysis step has executed in a run whose query returned
\* no matches, on a session that held jobs and a response from an earlier run.
C6_Witness ==
    /\ Len(steps) = 2
    /\ steps[2] = "generate_analysis"
    /\ QueryReturnedEmpty
    /\ RunEnded
    /\ agent_state["jobs"] = <<>>
    /\ TruthyDict(pre_selected)

\* C7: in a run of the graph the tailoring step is invoked if and only if
\* selected_job is present when the analysis step completes; when it is absent
\* the run is at its terminal state after two steps; the branch decision is
\* taken exactly once per run, and not before the analysis step.
C7_TailoringIffSelectedAtBranch ==
    /\ (steps # <<>> /\ steps[1] = "retrieve_jobs" /\ Len(steps) >= 2) =>
        /\ routed = 1
        /\ (pc = "tailor_resume" \/ \E i \in 1..Len(steps) : steps[i] = "tailor_resume")
            <=> TruthyDict(g["selected_job"])
        /\ ~TruthyDict(g["selected_job"]) => (pc = "END" /\ Len(steps) = 2)
        /\ TruthyDict(g["selected_job"]) =>
            (steps = FullRun \/ (pc = "tailor_resume" /\ Len(steps) = 2))
    /\ (pc \in {"retrieve_jobs", "generate_analysis"}) =>
        (routed = 0 /\ \A i \in 1..Len(steps) : steps[i] # "tailor_resume")

\* C7 witness: a run with a selected job has ended after the tailoring step.
C7_Witness ==
    /\ pc = "END"
    /\ steps = FullRun
    /\ routed = 1
    /\ TruthyDict(g["selected_job"])

\* the labels a failing step writes to history, by step
FailureLabel(node) ==
    CASE node = "retrieve_jobs" -> "Job retrieval failed"
      [] node = "generate_analysis" -> "Analysis generation failed"
      [] node = "tailor_resume" -> "Tailoring failed"

\* a step whose external call failed returned exactly an error and one
\* history entry naming the failure, and the run went on to where the step's
\* success would have led it
FailureIsValue ==
    (steps # <<>> /\ DependencyFailed) =>
        /\ DOMAIN last.out = {"error", "history"}
        /\ last.out["history"] = <<FailureLabel(Last(steps))>>
        /\ pc \in {"generate_analysis", "tailor_resume", "END", "idle"}
        /\ Last(steps) = "retrieve_jobs" => pc = "generate_analysis"
        /\ Last(steps) = "generate_analysis" => pc = Route(g)

\* C8: failures are values: when the embedder, the index or the LLM fails
\* inside a step, the step returns a partial update carrying an error field
\* and exactly one history entry naming the failure, nothing is raised past
\* the driver, and the run still terminates.
C8_FailuresAreValues ==
    /\ []FailureIsValue
    /\ (steps # <<>> /\ DependencyFailed) ~> (pc \in {"END", "idle"})

\* C8 witness: the run has ended although its retrieval step failed (the
\* index query raised).
C8_Witness ==
    /\ pc = "END"
    /\ \E i \in 1..Len(calls) : calls[i] = Call("query", FALSE, 0)
    /\ steps # <<>>
    /\ DependencyFailed

\* C9, as the spec states it: after any step has executed, current_response
\* is the output of the step that executed last.
C9_ResponseIsLastStepsOutput ==
    steps # <<>> =>
        /\ "current_response" \in DOMAIN last.out
        /\ agent_state["current_response"] = last.out["current_response"]

\* C9, amended: a step that returns a current_response (the analysis or the
\* tailoring step, having succeeded or short-circuited) makes it the session's
\* current_response; the retrieval step and every failing step return none and
\* leave current_response as it was, a response of an earlier step or run
\* included.
C9_ResponseOfLastStepThatReturnedOne ==
    [][StepTaken =>
          /\ agent_state'["current_response"] =
                IF "current_response" \in DOMAIN last'.out
                THEN last'.out["current_response"]
                ELSE agent_state["current_response"]
          /\ "current_response" \in DOMAIN last'.out
                <=> (Last(steps') # "retrieve_jobs" /\ "error" \notin DOMAIN last'.out)
      ]_vars

\* C9 witness: the retrieval step of a later run has executed and the session
\* still shows the LLM's response of an earlier run.
C9_Witness ==
    /\ steps = <<"retrieve_jobs">>
    /\ agent_state["current_response"] \in Responses
    /\ "current_response" \notin DOMAIN last.out

\* C10: with selected_job absent, tailor_resume is a no-op that reports "no
\* job selected": it calls no LLM, returns only that message and its history
\* entry, and its merge changes no other key of the state.
C10_TailoringWithoutJobIsNoOp ==
    [][(pc = "button" /\ ~TruthyDict(agent_state["selected_job"])) =>
          /\ last'.calls = <<>>
          /\ calls' = calls
          /\ last'.out = ("current_response" :> NoJobSelectedMsg
                          @@ "history" :> <<"Skipped tailoring">>)
          /\ agent_state'["current_response"] = NoJobSelectedMsg
          /\ DOMAIN agent_state' = DOMAIN agent_state
          /\ \A k \in DOMAIN agent_state \ {"current_response", "history"} :
                agent_state'[k] = agent_state[k]
      ]_vars

\* C10 witness: tailor_resume has been called on a state without a selected
\* job that held jobs and a resume.
C10_Witness ==
    /\ steps = <<"tailor_resume">>
    /\ pc = "idle"
    /\ agent_state["selected_job"] = None
    /\ agent_state["jobs"] # <<>>
    /\ agent_state["resume_text"] # ""
    /\ agent_state["current_response"] = NoJobSelectedMsg

\* the retrieval step of this run failed (the embedder or the index raised)
RetrievalFailed ==
    \E i \in 1..Len(calls) : calls[i].svc \in {"embed", "query"} /\ ~calls[i].ok

\* after a failed retrieval the analysis step has still executed and the
\* branch decision has still been taken when the run ends
PipelineGoesOn ==
    (RunEnded /\ RetrievalFailed) =>
        /\ Len(steps) >= 2
        /\ steps[1] = "retrieve_jobs"
        /\ steps[2] = "generate_analysis"
        /\ routed = 1

\* C11: a failing step does not abort the pipeline: when the retrieval step
\* of a full run fails, the analysis step of the same run still executes, the
\* branch decision after it is still taken, and the run ends in a terminal
\* state with the error visible in the state.
C11_FailedRetrievalErrorVisibleAtEnd ==
    /\ PipelineGoesOn
    /\ (RunEnded /\ RetrievalFailed) => "error" \in DOMAIN agent_state

\* some job of the state lacks a key (the title or the description)
JobLacksKey ==
    \E i \in 1..Len(agent_state["jobs"]) :
        DOMAIN agent_state["jobs"][i] # {"Job Title", "Job Description"}

\* C12: a job record that lacks a key is tolerated wherever it is consumed:
\* with such a record in the state no script run ends in an unhandled
\* exception, and no step returns an error unless an external call failed.
C12_MissingKeysTolerated ==
    JobLacksKey =>
        /\ unhandled = "none"
        /\ (steps # <<>> /\ "error" \in DOMAIN last.out) => DependencyFailed

\* selected_job is absent or one of the jobs of the state
SelectionAmongJobs ==
    \/ agent_state["selected_job"] = None
    \/ \E i \in 1..Len(agent_state["jobs"]) :
          agent_state["jobs"][i] = agent_state["selected_job"]

\* C13: at the end of every script run (the script waits for the next
\* interaction) selected_job is absent or an element of the state's jobs; and
\* a resume submission clears the previous selection before the graph starts,
\* in the session and in the graph's input.
C13_SelectionAbsentOrAmongJobs ==
    /\ pc \in {"idle", "auth"} => SelectionAmongJobs
    /\ pc = "retrieve_jobs" =>
        (agent_state["selected_job"] = None /\ g["selected_job"] = None)

\* C13 witness: a run that began with a job selected has replaced the jobs
\* and ended with a job of the new list selected.
C13_Witness ==
    /\ pc = "idle"
    /\ Len(steps) = 2
    /\ TruthyDict(pre_selected)
    /\ TruthyDict(agent_state["selected_job"])
    /\ agent_state["selected_job"] # pre_selected
    /\ \A i \in 1..Len(agent_state["jobs"]) : agent_state["jobs"][i] # pre_selected

---------------------------------------------------------------------------
(* Authentication *)

\* the positions of a script run inside main_application
WorkflowPositions == {"idle", "END", "rerun", "clicked", "button"} \cup Nodes

\* the submitted Login form names a user whose password verifies and whose
\* subscription is active and ends in the future
LoginJustified ==
    /\ form.kind = "login"
    /\ \E i \in 1..Len(users) :
          /\ users[i].username = form.username
          /\ verify_password(users[i].password_hash, form.password)
          /\ users[i].payment_status = "active"
          /\ users[i].subscription_end # Null
          /\ users[i].subscription_end[1] > now

\* the session after session_state.clear() and the defaults of main()
SessionCleared ==
    /\ ~logged_in
    /\ agent_state = DefaultAgentState
    /\ registration_data = None
    /\ ~registration_success
    /\ username = NoUser

\* C14: a script run is inside main_application only while logged_in is true;
\* logged_in becomes true only in the step of a login whose user exists, whose
\* password verifies against the stored hash and whose subscription is active
\* with subscription_end in the future; and the step in which logged_in
\* becomes false leaves a cleared session with the default workflow state.
C14_WorkflowBehindJustifiedLogin ==
    /\ [](pc \in WorkflowPositions => logged_in)
    /\ [][(~logged_in /\ logged_in') => (LoginJustified /\ username' = form.username)]_vars
    /\ [][(logged_in /\ ~logged_in') => SessionCleared']_vars

\* C14 witness: user u1 is logged in and has run the workflow, so a logout
\* from here has a session to clear
C14_Witness ==
    /\ logged_in
    /\ username = "u1"
    /\ pc = "idle"
    /\ agent_state["jobs"] # <<>>
    /\ agent_state["selected_job"] # None

---------------------------------------------------------------------------
(* The payment callback *)

\* handle_payment_callback applied twice to the same inputs commits what one
\* application commits, whatever the order id, PayPal's answer and the place
\* of a database failure
CallbackIdempotent ==
    \A order \in Orders, paypal_ok \in BOOLEAN, dbfail \in CallbackFailures :
        LET once == handle_payment_callback(users, payments, order,
                        registration_data, paypal_ok, dbfail, now)
            twice == handle_payment_callback(once.users, once.payments, order,
                        registration_data, paypal_ok, dbfail, now)
        IN  /\ twice.users = once.users
            /\ twice.payments = once.payments

\* at most one user row and one payment row carry an order id
OnePerOrder ==
    \A order \in Orders :
        /\ Cardinality(RowsOf(users, order)) <= 1
        /\ Cardinality(RowsOf(payments, order)) <= 1

\* a user row is committed only in a callback whose PayPal check was true,
\* and it carries the callback's order id
CreatedAfterPayPalCheck ==
    users' # users =>
        /\ pc = "callback"
        /\ paypal_checked' = "true"
        /\ (Len(users') > Len(users) => users'[Len(users')].payment_id = query_token)

\* a callback for an order id that already has its user row commits nothing
RepeatCommitsNothing ==
    (pc = "callback" /\ RowsOf(users, query_token) # {}) =>
        (users' = users /\ payments' = payments)

\* C15: the payment callback is idempotent per order id: a user is created
\* only after PayPal's check of the order returned true, the database never
\* holds more than one user or more than one payment for an order id, and
\* processing the callback again (the rerun after success included) leaves
\* the committed tables unchanged.
C15_CallbackIdempotentPerOrder ==
    /\ [](OnePerOrder /\ CallbackIdempotent)
    /\ [][CreatedAfterPayPalCheck]_vars
    /\ [][RepeatCommitsNothing]_vars

\* C15 witness: an order's callback succeeded, the rerun processed it again,
\* and the tables hold the one activated user and the one payment
C15_Witness ==
    /\ pc = "forms"
    /\ registration_success
    /\ paypal_checked = "true"
    /\ query_token # NoToken
    /\ Cardinality(RowsOf(users, query_token)) = 1
    /\ Cardinality(RowsOf(payments, query_token)) = 1
    /\ \E i \in RowsOf(users, query_token) :
          /\ users[i].payment_status = "active"
          /\ users[i].username = registration_data.username

====
